---- MODULE Spec2Model ----
(***************************************************************************)
(* Offline-first synchronisation of inspection records:                    *)
(*   - the Dexie table db.inspections              (src/src/lib/db.ts)     *)
(*   - the sync engine                      (src/src/lib/sync-engine.ts)   *)
(*   - the create action        (src/src/components/CreateInspection.tsx)  *)
(*   - the live view        (RealtimeInspections, src/unnamed/part_002)    *)
(* IndexedDB runs the transactions on one table in the order they were     *)
(* created, so a table operation takes effect where it is called; the only *)
(* await at which other handlers get to change what a sync pass sees is    *)
(* the fetch.  A pass is therefore cut at its fetches: one action per      *)
(* response, and passes started by different triggers interleave.          *)
(***************************************************************************)
EXTENDS Integers, Sequences, FiniteSets, Bags, TLC

\* ---------------------------------------------------------------- bounds
MaxIds == 2        \* number of distinct record ids crypto.randomUUID() may return
MaxPasses == 2     \* calls of syncPendingInspections() that may be suspended at once
MaxClock == 3      \* number of distinct instants new Date() returns
MaxRetry == 3      \* failed pushes counted per record
MaxSnapshot == 2   \* records in one message of the stream

Ids == 1..MaxIds
NoTime == 0        \* syncedAt is undefined
Times == 1..MaxClock

\* form inputs: lengths of the three text fields
LocLens == {2, 3}
TechLens == {1, 2}
FindLens == {9, 10}

VARIABLES
    store,      \* db.inspections: id -> Inspection
    online,     \* navigator.onLine
    started,    \* startSyncEngine() has registered its listener and timer
    passes,     \* the bag of suspended calls of syncPendingInspections()
    remote,     \* ids the backend has answered 2xx for
    retry,      \* per id, while no two passes have overlapped: the answered
                \* pushes and the completed passes that had scanned the id
    formState,  \* useActionState: what the last createInspectionAction returned,
                \* or NotKept
    remoteInspections,  \* the live view's state: the list of the last message
    view        \* the live view's other state and refs: connectionStatus,
                \* isConnected, lastUpdate, eventSourceRef, reconnectTimeoutRef

vars == <<store, online, started, passes, remote, retry, formState,
          remoteInspections, view>>

\* ------------------------------------------------------------ db.ts
\* interface Inspection
Inspection(id, location, technician, findings, status, createdAt, syncedAt) ==
    [id |-> id, location |-> location, technician |-> technician,
     findings |-> findings, status |-> status, createdAt |-> createdAt,
     syncedAt |-> syncedAt]

\* (variant: the add of an existing key resolves, leaving the row as it is)
AddFails_Never(table, rec) == FALSE

\* Table.add: rejects with ConstraintError when the key is already there
AddFails(table, rec) == rec.id \in DOMAIN table
\* (variant: Table.put, which overwrites the row of an existing key)
TableAdd_Put(table, rec) ==
    [k \in DOMAIN table \cup {rec.id} |-> IF k = rec.id THEN rec ELSE table[k]]
TableAdd(table, rec) == IF AddFails(table, rec) THEN table ELSE table @@ (rec.id :> rec)

\* (variant: the update addresses a key that is not in the table)
TableUpdate_Lost(table, key, changes) == table

\* (variant: the row is replaced by the changes, as Table.put would)
TableUpdate_Replace(table, key, changes) ==
    IF key \in DOMAIN table
    THEN [table EXCEPT ![key] = Inspection(key, 0, 0, 0, changes.status, NoTime,
                                           changes.syncedAt)]
    ELSE table

\* Table.update(key, changes): applies the changes when the key exists
TableUpdate(table, key, changes) ==
    IF key \in DOMAIN table
    THEN [table EXCEPT ![key] = [@ EXCEPT !.status = changes.status,
                                          !.syncedAt = changes.syncedAt]]
    ELSE table

RECURSIVE SortedByKey(_)
SortedByKey(keys) ==
    IF keys = {} THEN <<>>
    ELSE LET k == CHOOSE x \in keys : \A y \in keys : x <= y
         IN  <<k>> \o SortedByKey(keys \ {k})

\* where('status').equals(s).toArray(): the matching rows in primary-key order
WhereStatus(table, s) ==
    LET keys == {k \in DOMAIN table : table[k].status = s}
        order == SortedByKey(keys)
    IN  [i \in 1..Len(order) |-> table[order[i]]]

\* ------------------------------------------------------ sync-engine.ts
\* new Date(): an instant later than every instant stored so far, as long as
\* the model has a later one
Max(S) == CHOOSE x \in S : \A y \in S : y <= x
Stamps ==
    {NoTime} \cup {store[k].createdAt : k \in DOMAIN store}
             \cup {store[k].syncedAt : k \in DOMAIN store}
Now == IF Max(Stamps) < MaxClock THEN Max(Stamps) + 1 ELSE MaxClock

\* a call of syncPendingInspections() that has scanned pending
NewPass(pending) == [pending |-> pending, idx |-> 0, pushed |-> <<>>, syncedCount |-> 0]

\* the passes in progress, each waiting for the answer to one fetch
Active == BagToSet(passes)
Started(pass) == passes (+) SetToBag({pass})
Returned(pass) == passes (-) SetToBag({pass})

\* (variant: the status is flipped without a syncedAt)
SyncedChanges_NoSyncedAt(now) == [status |-> "synced", syncedAt |-> NoTime]

\* the changes syncInspection writes after a 2xx response
SyncedChanges(now) == [status |-> "synced", syncedAt |-> now]

\* (variant: the whole inspection is sent)
Payload_WithStatus(inspection) == inspection

\* the request body: the inspection without its status
Payload(inspection) ==
    [id |-> inspection.id, location |-> inspection.location,
     technician |-> inspection.technician, findings |-> inspection.findings,
     createdAt |-> inspection.createdAt, syncedAt |-> inspection.syncedAt]

\* (variant: the body is built from the record as the table holds it when
\* the fetch is sent, not from the scanned copy)
IssueFetch_Reread(pass, i) ==
    [pending |-> pass.pending, idx |-> i,
     pushed |-> Append(pass.pushed, pass.pending[i].id),
     syncedCount |-> pass.syncedCount,
     body |-> Payload(IF pass.pending[i].id \in DOMAIN store
                      THEN store[pass.pending[i].id] ELSE pass.pending[i])]

\* the fetch() of syncInspection(pending[i]) is sent
IssueFetch(pass, i) ==
    [pending |-> pass.pending, idx |-> i,
     pushed |-> Append(pass.pushed, pass.pending[i].id),
     syncedCount |-> pass.syncedCount,
     body |-> Payload(pass.pending[i])]

IdsOf(pending) == [i \in 1..Len(pending) |-> pending[i].id]

\* retry accounting of one record, kept while passes run one after another
Void == [fails |-> -1, ok |-> FALSE, cycles |-> -1]
Fresh == [fails |-> 0, ok |-> FALSE, cycles |-> 0]
Answered(r, ok) ==
    IF r = Void THEN Void
    ELSE IF ok THEN [r EXCEPT !.ok = TRUE]
    ELSE IF r.fails < MaxRetry THEN [r EXCEPT !.fails = @ + 1]
    ELSE Void
Cycled(r) == IF r = Void THEN Void ELSE [r EXCEPT !.cycles = @ + 1]

\* (variant: the loop breaks at the first failed push)
MoreToPush_Break(pass, success) == success /\ pass.idx < Len(pass.pending)

\* for (const inspection of pending): is there a next iteration, after
\* syncInspection(pending[idx]) returned success
MoreToPush(pass, success) == pass.idx < Len(pass.pending)

NoTrigger == UNCHANGED <<passes, retry>>

\* a call of syncPendingInspections() on table: the scan, and when something
\* is pending the first fetch; it returns 0 at once when nothing is pending
Trigger(table) ==
    LET pass == NewPass(WhereStatus(table, "pending"))
    IN  IF MoreToPush(pass, TRUE)
        THEN /\ BagCardinality(passes) < MaxPasses
             /\ passes' = Started(IssueFetch(pass, 1))
             /\ retry' = IF Active # {} THEN [i \in Ids |-> Void] ELSE retry
        ELSE NoTrigger

\* if (success) syncedCount++
Counted(pass, success) ==
    [pass EXCEPT !.syncedCount = IF success THEN @ + 1 ELSE @]

\* what the call returns when its loop ends after syncInspection(pending[idx])
\* returned success
ReturnValue(pass, success) == Counted(pass, success).syncedCount

\* the for loop of syncPendingInspections after syncInspection(pending[idx])
\* has returned: the next fetch is sent, or the pass returns syncedCount
Resume(pass, success, log) ==
    IF MoreToPush(pass, success)
    THEN /\ passes' = Returned(pass)
                        (+) SetToBag({IssueFetch(Counted(pass, success), pass.idx + 1)})
         /\ retry' = log
    ELSE /\ passes' = Returned(pass)
         /\ retry' = [i \in Ids |->
                IF \E k \in 1..Len(pass.pending) : pass.pending[k].id = i
                THEN Cycled(log[i]) ELSE log[i]]

Outcomes == {"ok", "non2xx", "neterr"}

\* (variant: the response.ok test is missing)
ResponseOk_NoOkCheck(outcome) == outcome # "neterr"

\* syncInspection goes on to db.inspections.update: fetch did not throw and
\* response.ok holds
ResponseOk(outcome) == outcome = "ok"

\* the id whose push the pass is waiting for
Current(pass) == pass.pending[pass.idx].id

\* (variant: syncInspection without its try/catch: a rejected fetch is thrown
\* on to the loop)
SyncInspection_NoCatch(outcome) ==
    IF outcome = "neterr" THEN "throws"
    ELSE IF ResponseOk(outcome) THEN "true" ELSE "false"

\* how syncInspection settles: true after the update, false from the
\* !response.ok branch and from the catch
SyncInspection(outcome) == IF ResponseOk(outcome) THEN "true" ELSE "false"

\* an exception thrown inside the for loop rejects syncPendingInspections():
\* the pass ends where it is
Rejects(pass) ==
    /\ passes' = Returned(pass)
    /\ retry' = [i \in Ids |-> Void]

\* (variant: the form's action awaits the pass and returns an error when a
\* push failed)
FetchReply_ReportsFailure(p, outcome) ==
    /\ p \in Active
    /\ outcome \in Outcomes
    /\ outcome # "neterr" => online
    /\ remote' = IF outcome = "ok" THEN remote \cup {Current(p)} ELSE remote
    /\ IF ResponseOk(outcome)
       THEN store' = TableUpdate(store, Current(p), SyncedChanges(Now))
       ELSE store' = store
    /\ Resume(p, SyncInspection(outcome) = "true",
              [retry EXCEPT ![Current(p)] = Answered(@, outcome = "ok")])
    /\ formState' = IF formState.status = "none" \/ outcome = "ok"
                    THEN formState ELSE [status |-> "error", message |-> "sync"]
    /\ UNCHANGED <<online, started, remoteInspections, view>>

\* the fetch of syncInspection settles (2xx, non-2xx, or a network error):
\* after a 2xx the record is marked synced; then the loop goes on
FetchReply(p, outcome) ==
    /\ p \in Active
    /\ outcome \in Outcomes
    /\ outcome # "neterr" => online
    /\ remote' = IF outcome = "ok" THEN remote \cup {Current(p)} ELSE remote
    /\ IF ResponseOk(outcome)
       THEN store' = TableUpdate(store, Current(p), SyncedChanges(Now))
       ELSE store' = store
    /\ IF SyncInspection(outcome) = "throws"
       THEN Rejects(p)
       ELSE Resume(p, SyncInspection(outcome) = "true",
                   [retry EXCEPT ![Current(p)] = Answered(@, outcome = "ok")])
    /\ UNCHANGED <<online, started, formState, remoteInspections, view>>

\* startSyncEngine(): listener, initial sync if online, timer
startSyncEngine ==
    /\ ~started
    /\ started' = TRUE
    /\ IF online THEN Trigger(store) ELSE NoTrigger
    /\ UNCHANGED <<store, online, remote, formState, remoteInspections, view>>

\* (variant: no 'online' listener is registered)
OnlineEvent_NoListener ==
    /\ ~online
    /\ online' = TRUE
    /\ NoTrigger
    /\ UNCHANGED <<store, started, remote, formState, remoteInspections, view>>

\* the browser goes online; the 'online' listener calls syncPendingInspections
OnlineEvent ==
    /\ ~online
    /\ online' = TRUE
    /\ IF started THEN Trigger(store) ELSE NoTrigger
    /\ UNCHANGED <<store, started, remote, formState, remoteInspections, view>>

\* the browser goes offline
OfflineEvent ==
    /\ online
    /\ online' = FALSE
    /\ UNCHANGED <<store, started, passes, remote, retry, formState,
                 remoteInspections, view>>

\* (variant: the timer callback tests !navigator.onLine)
IntervalTick_Inverted ==
    /\ started
    /\ IF ~online THEN Trigger(store) ELSE NoTrigger
    /\ UNCHANGED <<store, online, started, remote, formState,
                 remoteInspections, view>>

\* (variant: the timer callback does not test navigator.onLine)
IntervalTick_NoCheck ==
    /\ started
    /\ Trigger(store)
    /\ UNCHANGED <<store, online, started, remote, formState,
                   remoteInspections, view>>

\* the setInterval callback
IntervalTick ==
    /\ started
    /\ IF online THEN Trigger(store) ELSE NoTrigger
    /\ UNCHANGED <<store, online, started, remote, formState,
                 remoteInspections, view>>

\* ------------------------------------------------- CreateInspection.tsx
\* (variant: the findings check is missing)
Valid_NoFindings(location, technician, findings) ==
    ~(location < 3) /\ ~(technician < 2)

\* the three checks of the validation pass
Valid(location, technician, findings) ==
    ~(location < 3) /\ ~(technician < 2) /\ ~(findings < 10)

\* (variant: the object is built as already synced)
NewInspection_Synced(id, location, technician, findings, now) ==
    Inspection(id, location, technician, findings, "synced", now, now)

\* the inspection object createInspectionAction builds
NewInspection(id, location, technician, findings, now) ==
    Inspection(id, location, technician, findings, "pending", now, NoTime)

\* the FormState values createInspectionAction returns
NotKept == [status |-> "none", message |-> "none"]
Idle == [status |-> "idle", message |-> "none"]
Error(message) == [status |-> "error", message |-> message]
Success(onLine) ==
    [status |-> "success", message |-> IF onLine THEN "syncing" ELSE "later"]

\* (variant: the technician check comes first)
ValidationError_TechnicianFirst(location, technician, findings) ==
    IF technician < 2 THEN Error("technician")
    ELSE IF location < 3 THEN Error("location")
    ELSE Error("findings")

\* the error the validation returns: the first check that fails
ValidationError(location, technician, findings) ==
    IF location < 3 THEN Error("location")
    ELSE IF technician < 2 THEN Error("technician")
    ELSE Error("findings")

\* (variant: the sync is started whether or not the browser is online)
SyncsAtOnce_Always(onLine) == TRUE
\* (variant: the sync is left to the timer)
SyncsAtOnce_Never(onLine) == FALSE

\* if (navigator.onLine) after the add
SyncsAtOnce(onLine) == onLine

\* useActionState stores the state the action returned
Returns(state) == formState' = IF formState = NotKept THEN NotKept ELSE state

\* createInspectionAction: validation, then the add; when the add committed it
\* syncs at once if online; when it threw, the catch returns the error
createInspectionAction(location, technician, findings) ==
    /\ IF Valid(location, technician, findings)
       THEN \E id \in Ids :
               LET inspection == NewInspection(id, location, technician, findings, Now)
               IN  /\ store' = TableAdd(store, inspection)
                   /\ IF AddFails(store, inspection)
                      THEN NoTrigger /\ Returns(Error("ConstraintError"))
                      ELSE /\ IF SyncsAtOnce(online) THEN Trigger(store') ELSE NoTrigger
                           /\ Returns(Success(online))
       ELSE /\ UNCHANGED <<store, passes, retry>>
            /\ Returns(ValidationError(location, technician, findings))
    /\ UNCHANGED <<online, started, remote, remoteInspections, view>>

\* the live view before its effect has run; constructs: new EventSource(url)
\* returns a connection in this browser, otherwise it throws
Unmounted(constructs) ==
    [phase |-> "initial", connectionStatus |-> "disconnected",
     isConnected |-> FALSE, eventSource |-> "null", reconnectTimeout |-> "null",
     lastUpdate |-> NoTime, constructs |-> constructs]

Init ==
    /\ store = <<>>
    /\ online \in BOOLEAN
    /\ started = FALSE
    /\ passes = EmptyBag
    /\ remote = {}
    /\ retry = [i \in Ids |-> Fresh]
    /\ formState = NotKept
    /\ remoteInspections = <<>>
    /\ view = Unmounted(TRUE)

Next ==
    \/ startSyncEngine
    \/ OnlineEvent
    \/ OfflineEvent
    \/ IntervalTick
    \/ \E l \in LocLens, t \in TechLens, f \in FindLens : createInspectionAction(l, t, f)
    \/ \E p \in Active, outcome \in Outcomes : FetchReply(p, outcome)

Spec == Init /\ [][Next]_vars

TypeOK ==
    /\ DOMAIN store \subseteq Ids
    /\ online \in BOOLEAN
    /\ BagCardinality(passes) <= MaxPasses
    /\ \A p \in Active : p.idx \in 1..Len(p.pending)

\* ---------------------------------------------------------------- fairness
\* a push is answered 2xx
PushAccepted == \E p \in Active : FetchReply(p, "ok")

\* the app is mounted, the timer keeps firing, and the backend does not
\* fail the pushes for ever: a push is accepted if pushes keep being sent
Fairness ==
    /\ WF_vars(startSyncEngine)
    /\ WF_vars(IntervalTick)
    /\ SF_vars(PushAccepted)

\* the retry accounting is not kept
LiveInit ==
    /\ store = <<>>
    /\ online \in BOOLEAN
    /\ started = FALSE
    /\ passes = EmptyBag
    /\ remote = {}
    /\ retry = [i \in Ids |-> Void]
    /\ formState = NotKept
    /\ remoteInspections = <<>>
    /\ view = Unmounted(TRUE)

LiveSpec == LiveInit /\ [][Next]_vars /\ Fairness

\* ------------------------------------------------- the browser's storage
\* the browser deletes the origin's IndexedDB data (the user clears the site
\* data) while the page stays open
StorageCleared ==
    /\ store # <<>>
    /\ store' = <<>>
    /\ UNCHANGED <<online, started, passes, remote, retry, formState,
                   remoteInspections, view>>

ClearedNext ==
    \/ Next
    \/ StorageCleared

\* the program on a browser that may clear the storage; the retry accounting
\* is not kept
ClearedSpec == LiveInit /\ [][ClearedNext]_vars

\* -------------------------------------------------------------- the form
\* lengths typed into the form, the empty field included
FormLocLens == {0, 2, 3, 4}
FormTechLens == {1, 2}
FormFindLens == {9, 10}

\* the form is rendered and keeps the state its action returns; its action is
\* the only caller of syncPendingInspections() and the browser stays online
\* or stays offline; the retry accounting is not kept
FormInit ==
    /\ store = <<>>
    /\ online \in BOOLEAN
    /\ started = FALSE
    /\ passes = EmptyBag
    /\ remote = {}
    /\ retry = [i \in Ids |-> Void]
    /\ formState = Idle
    /\ remoteInspections = <<>>
    /\ view = Unmounted(TRUE)

FormNext ==
    \/ \E l \in FormLocLens, t \in FormTechLens, f \in FormFindLens :
           createInspectionAction(l, t, f)
    \/ \E p \in Active, outcome \in Outcomes : FetchReply(p, outcome)

FormSpec == FormInit /\ [][FormNext]_vars

\* ---------------------------------------------------------- the live view
\* a record of the backend's list, as the stream sends it
RemoteInspection(id, createdAt) == Inspection(id, 3, 2, 10, "synced", createdAt, createdAt)

RECURSIVE SeqsUpTo(_, _)
SeqsUpTo(S, n) ==
    IF n = 0 THEN {<<>>}
    ELSE LET shorter == SeqsUpTo(S, n - 1)
         IN  shorter \cup {Append(q, x) : q \in shorter, x \in S}

\* data.inspections of a message: the backend's rows in any order, one row
\* per id
Snapshots ==
    {list \in SeqsUpTo({RemoteInspection(id, t) : id \in Ids, t \in Times}, MaxSnapshot) :
        \A i \in 1..Len(list), j \in 1..Len(list) : list[i].id = list[j].id => i = j}

\* (variant: an array push instead of Map.set)
MapSet_Push(map, inspection) == Append(map, inspection)

\* Map.set(inspection.id, inspection) on the values in insertion order: the
\* value of a key that is there is replaced in place, a new key is appended
MapSet(map, inspection) ==
    IF \E i \in 1..Len(map) : map[i].id = inspection.id
    THEN [i \in 1..Len(map) |->
             IF map[i].id = inspection.id THEN inspection ELSE map[i]]
    ELSE Append(map, inspection)

\* list.forEach(i => map.set(i.id, i))
RECURSIVE SetAll(_, _)
SetAll(map, list) ==
    IF list = <<>> THEN map ELSE SetAll(MapSet(map, Head(list)), Tail(list))

\* (variant: the operands of the subtraction are swapped)
Compare_Ascending(a, b) == a.createdAt - b.createdAt

\* the comparator of the sort, negative when a goes first; createdAt is the
\* instant getTime() returns for the stored ISO string
Compare(a, b) == b.createdAt - a.createdAt

\* Array.prototype.sort(Compare), which is stable: x goes behind every entry
\* that does not have to come after it
Insert(sorted, x) ==
    LET before == {i \in 1..Len(sorted) : Compare(sorted[i], x) <= 0}
        n == Cardinality(before)
    IN  SubSeq(sorted, 1, n) \o <<x>> \o SubSeq(sorted, n + 1, Len(sorted))
RECURSIVE Sort(_)
Sort(list) ==
    IF list = <<>> THEN <<>>
    ELSE Insert(Sort(SubSeq(list, 1, Len(list) - 1)), list[Len(list)])

\* useLiveQuery(() => db.inspections.where('status').equals('pending').toArray())
localInspections == WhereStatus(store, "pending")

\* (variant: the remote list is laid over the local one)
Merged_RemoteOver(local, remoteList) == Sort(SetAll(SetAll(<<>>, local), remoteList))

\* (variant: the view renders the snapshot of the stream alone)
Merged_RemoteOnly(local, remoteList) == Sort(SetAll(<<>>, remoteList))

\* the merge: a Map of the remote list, the local records set over it, the
\* values sorted by createdAt descending
Merged(local, remoteList) == Sort(SetAll(SetAll(<<>>, remoteList), local))

\* const inspections: what the view renders
inspections == Merged(localInspections, remoteInspections)

\* event.data of a message of the stream
Heartbeat == [data |-> ":heartbeat", inspections |-> <<>>]
Garbled == [data |-> "garbled", inspections |-> <<>>]
DataEvent(list) == [data |-> "json", inspections |-> list]
Events == {Heartbeat, Garbled} \cup {DataEvent(list) : list \in Snapshots}

\* (variant: whatever is not a heartbeat is taken for an SSEMessage)
Parses_Anything(event) == event.data # ":heartbeat"

\* JSON.parse(event.data) returns an SSEMessage
Parses(event) == event.data = "json"

\* new Date() of setLastUpdate: a later instant, as long as the model has one
Later(t) == IF t < MaxClock THEN t + 1 ELSE MaxClock

\* (variant: the last-update time is set before the heartbeat test)
Handled_HeartbeatStamps(event, list, last) ==
    IF event.data = ":heartbeat" THEN <<list, Later(last)>>
    ELSE IF Parses(event) THEN <<event.inspections, Later(last)>>
    ELSE <<list, last>>

\* (variant: a parsed message is laid over the list kept so far, as a delta)
Handled_Delta(event, list, last) ==
    IF event.data = ":heartbeat" THEN <<list, last>>
    ELSE IF Parses(event) THEN <<SetAll(list, event.inspections), Later(last)>>
    ELSE <<list, last>>

\* the list and the last-update time after onmessage: a heartbeat returns at
\* once, a parsed message replaces the list, a parse error is caught
Handled(event, list, last) ==
    IF event.data = ":heartbeat" THEN <<list, last>>
    ELSE IF Parses(event) THEN <<event.inspections, Later(last)>>
    ELSE <<list, last>>

\* eventSource.onmessage
onmessage(event) ==
    /\ view.phase = "mounted"
    /\ view.eventSource = "open"
    /\ LET after == Handled(event, remoteInspections, view.lastUpdate)
       IN  /\ remoteInspections' = after[1]
           /\ view' = [view EXCEPT !.lastUpdate = after[2]]
    /\ UNCHANGED <<store, online, started, passes, remote, retry, formState>>

\* connectSSE(): the status is set to connecting and the EventSource is
\* created; when the constructor throws, the catch sets disconnected
connectSSE(v) ==
    IF v.constructs
    THEN [v EXCEPT !.connectionStatus = "connecting", !.eventSource = "connecting"]
    ELSE [v EXCEPT !.connectionStatus = "disconnected"]

notView == <<store, online, started, passes, remote, retry, formState,
             remoteInspections>>

\* the effect of the mounted component: the initial connection
Mount ==
    /\ view.phase = "initial"
    /\ view' = connectSSE([view EXCEPT !.phase = "mounted"])
    /\ UNCHANGED notView

\* eventSource.onopen
onopen ==
    /\ view.phase = "mounted"
    /\ view.eventSource = "connecting"
    /\ view' = [view EXCEPT !.eventSource = "open", !.isConnected = TRUE,
                            !.connectionStatus = "connected"]
    /\ UNCHANGED notView

\* (variant: the failed source is left open when the timer is set)
onerror_NoClose ==
    /\ view.phase = "mounted"
    /\ view.eventSource \in {"connecting", "open"}
    /\ view' = [view EXCEPT !.isConnected = FALSE,
                            !.connectionStatus = "disconnected",
                            !.reconnectTimeout = "armed"]
    /\ UNCHANGED notView

\* eventSource.onerror: the connection is closed and the reconnect timer set
onerror ==
    /\ view.phase = "mounted"
    /\ view.eventSource \in {"connecting", "open"}
    /\ view' = [view EXCEPT !.isConnected = FALSE,
                            !.connectionStatus = "disconnected",
                            !.eventSource = "closed",
                            !.reconnectTimeout = "armed"]
    /\ UNCHANGED notView

\* the callback of the reconnect timer, 3 s after the error
reconnect ==
    /\ view.reconnectTimeout = "armed"
    /\ view' = connectSSE([view EXCEPT !.reconnectTimeout = "fired"])
    /\ UNCHANGED notView

\* (variant: the cleanup closes the source and leaves the timer running)
unmount_KeepsTimer ==
    /\ view.phase = "mounted"
    /\ view' = [view EXCEPT
                   !.phase = "unmounted",
                   !.eventSource = IF @ = "null" THEN "null" ELSE "closed"]
    /\ UNCHANGED notView

\* the cleanup of the effect
unmount ==
    /\ view.phase = "mounted"
    /\ view' = [view EXCEPT
                   !.phase = "unmounted",
                   !.eventSource = IF @ = "null" THEN "null" ELSE "closed",
                   !.reconnectTimeout = IF @ = "armed" THEN "cleared" ELSE @]
    /\ UNCHANGED notView

\* the view with its stream open
Connected ==
    [phase |-> "mounted", connectionStatus |-> "connected", isConnected |-> TRUE,
     eventSource |-> "open", reconnectTimeout |-> "null", lastUpdate |-> NoTime,
     constructs |-> TRUE]

\* the view is mounted with its stream open, over a table filled while the
\* browser is offline
ViewInit ==
    /\ store = <<>>
    /\ online = FALSE
    /\ started = FALSE
    /\ passes = EmptyBag
    /\ remote = {}
    /\ retry = [i \in Ids |-> Void]
    /\ formState = NotKept
    /\ remoteInspections = <<>>
    /\ view = Connected

ViewNext ==
    \/ \E l \in LocLens, t \in TechLens, f \in FindLens : createInspectionAction(l, t, f)
    \/ \E data \in Snapshots : onmessage(DataEvent(data))

ViewSpec == ViewInit /\ [][ViewNext]_vars

\* the stream of the live view, from the first render on
StreamInit ==
    /\ store = <<>>
    /\ online \in BOOLEAN
    /\ started = FALSE
    /\ passes = EmptyBag
    /\ remote = {}
    /\ retry = [i \in Ids |-> Void]
    /\ formState = NotKept
    /\ remoteInspections = <<>>
    /\ \E constructs \in BOOLEAN : view = Unmounted(constructs)

StreamNext ==
    \/ Mount
    \/ onopen
    \/ \E event \in Events : onmessage(event)
    \/ onerror
    \/ reconnect
    \/ unmount

StreamSpec == StreamInit /\ [][StreamNext]_vars

\* the browser opens the view and runs the timer it has set
StreamFairness == WF_vars(Mount) /\ WF_vars(reconnect)

StreamLiveSpec == StreamInit /\ [][StreamNext]_vars /\ StreamFairness

\* the live view next to the form and the engine's pushes: records are
\* created and synced while the stream connects, delivers lists of at most
\* one row, fails and reconnects
MergeInit ==
    /\ store = <<>>
    /\ online \in BOOLEAN
    /\ started = FALSE
    /\ passes = EmptyBag
    /\ remote = {}
    /\ retry = [i \in Ids |-> Void]
    /\ formState = NotKept
    /\ remoteInspections = <<>>
    /\ view = Unmounted(TRUE)

MergeNext ==
    \/ createInspectionAction(3, 2, 10)
    \/ \E p \in Active, outcome \in Outcomes : FetchReply(p, outcome)
    \/ Mount
    \/ onopen
    \/ \E data \in {list \in Snapshots : Len(list) <= 1} : onmessage(DataEvent(data))
    \/ onerror
    \/ reconnect

MergeSpec == MergeInit /\ [][MergeNext]_vars

\* ------------------------------------------------------------------ claims
Pending(id) == id \in DOMAIN store /\ store[id].status = "pending"
Synced(id) == id \in DOMAIN store /\ store[id].status = "synced"
Range(seq) == {seq[i] : i \in 1..Len(seq)}

\* C1: while two passes overlap, no record is pushed by both of them
C1_NoDoublePush ==
    \A p \in Active, q \in Active :
        (p # q \/ CopiesIn(p, passes) > 1)
            => Range(p.pushed) \cap Range(q.pushed) = {}

\* C2: at most one sync pass is in progress at any time
C2_SinglePass == BagCardinality(passes) <= 1

\* C3: every record that is synced locally has had a push answered 2xx
C3_SyncedWasAccepted == \A id \in DOMAIN store : Synced(id) => id \in remote
C3_Witness == \E id \in DOMAIN store : Synced(id) /\ id \in remote

\* C4: the only status change is pending -> synced; a synced record stays
\* synced and no record leaves the store
C4_StatusMonotonic ==
    [][\A id \in DOMAIN store :
          /\ id \in DOMAIN store'
          /\ store'[id].status # store[id].status
                => store[id].status = "pending" /\ store'[id].status = "synced"]_vars
C4_Witness == \E p \in Active : Synced(Current(p))

\* C5: a record has a syncedAt exactly when its status is synced
C5_SyncedAtIffSynced ==
    \A id \in DOMAIN store : (store[id].syncedAt # NoTime) <=> (store[id].status = "synced")
C5_Witness ==
    \E i \in DOMAIN store, j \in DOMAIN store :
        /\ Synced(i) /\ store[i].syncedAt # NoTime
        /\ Pending(j) /\ store[j].syncedAt = NoTime

\* C6: once a record's syncedAt is written no later step changes it
C6_SyncedAtWrittenOnce ==
    [][\A id \in DOMAIN store :
          store[id].syncedAt # NoTime => store'[id].syncedAt = store[id].syncedAt]_vars

\* C7: no push request is sent for a record that is synced locally at the
\* moment the request is sent
C7_NoResendOfSynced ==
    [][\A q \in BagToSet(passes') :
          CopiesIn(q, passes') > CopiesIn(q, passes)
              => store'[Current(q)].status = "pending"]_vars

\* C8: a pass returns only after every record it scanned got exactly one
\* push attempt, in scan order, whatever the earlier pushes answered; while
\* it runs it has pushed exactly the records up to the current one
C8_BatchNotAborted ==
    /\ [](\A p \in Active : p.pushed = SubSeq(IdsOf(p.pending), 1, p.idx))
    /\ [][\A p \in Active :
             passes' = Returned(p) => p.pushed = IdsOf(p.pending)]_vars
C8_Witness ==
    \E p \in Active :
        /\ p.idx = 2
        /\ Len(p.pushed) = 2
        /\ retry[p.pending[1].id] = [fails |-> 1, ok |-> FALSE, cycles |-> 0]

\* C9: if the host stays online from some point on, every pending record
\* eventually becomes synced, by the timer alone
C9_EventualSync ==
    (<>[]online) => \A id \in Ids : (Pending(id) ~> Synced(id))
C9_Witness ==
    \E i \in Ids, j \in Ids :
        Synced(i) /\ Pending(j) /\ online /\ started /\ Active = {}

\* C10: with passes run one after another, a record whose first two pushes
\* failed is still pending without syncedAt after its first and after its
\* second pass, and when the third push is accepted it is synced with
\* syncedAt set after its third pass; every pass pushes it once
C10_RetryConvergence ==
    \A id \in DOMAIN store :
        LET r == retry[id] IN
        r # Void =>
            /\ (r.cycles \in {1, 2} /\ r.fails = r.cycles /\ ~r.ok)
                   => store[id].status = "pending" /\ store[id].syncedAt = NoTime
            /\ (r.cycles = 3 /\ r.fails = 2 /\ r.ok)
                   => store[id].status = "synced" /\ store[id].syncedAt # NoTime
            /\ r.cycles <= r.fails + (IF r.ok THEN 1 ELSE 0)
            /\ r.fails + (IF r.ok THEN 1 ELSE 0) <= r.cycles + 1
C10_Witness ==
    \E id \in DOMAIN store :
        retry[id] = [fails |-> 2, ok |-> TRUE, cycles |-> 3] /\ Synced(id)

\* C11: a create with valid input whose generated id is not yet stored adds
\* exactly one record: pending, without syncedAt, with the typed fields, under
\* the new id, and in the store when the success state is returned; the only
\* other outcome of a valid input is the ConstraintError of an id collision
C11_CreateStoresPending ==
    [][\A l \in FormLocLens, t \in FormTechLens, f \in FormFindLens :
          (l >= 3 /\ t >= 2 /\ f >= 10 /\ createInspectionAction(l, t, f))
              => \/ /\ formState'.status = "success"
                    /\ \E id \in Ids \ DOMAIN store :
                          /\ DOMAIN store' = DOMAIN store \cup {id}
                          /\ \A k \in DOMAIN store : store'[k] = store[k]
                          /\ store'[id] = Inspection(id, l, t, f, "pending",
                                                    store'[id].createdAt, NoTime)
                          /\ store'[id].createdAt \in Times
                 \/ /\ formState' = Error("ConstraintError")
                    /\ store' = store
                    /\ store # <<>>]_vars
C11_Witness ==
    /\ formState.status = "success"
    /\ Cardinality(DOMAIN store) = 2
    /\ \E i \in DOMAIN store, j \in DOMAIN store :
          /\ Pending(i) /\ store[i].location = 4
          /\ Pending(j) /\ store[j].location = 3

\* C12: a create with invalid input returns an error state, writes nothing
\* to the store and starts no sync pass
C12_InvalidInputRejected ==
    [][\A l \in FormLocLens, t \in FormTechLens, f \in FormFindLens :
          ((l < 3 \/ t < 2 \/ f < 10) /\ createInspectionAction(l, t, f))
              => /\ formState'.status = "error"
                 /\ store' = store
                 /\ passes' = passes]_vars
C12_Witness ==
    /\ formState = Error("findings")
    /\ online
    /\ Active = {}
    /\ \E id \in DOMAIN store : Pending(id)

\* C13: the error returned is the one of the first failing check, in the
\* order location, technician, findings
C13_ValidationOrder ==
    [][\A l \in FormLocLens, t \in FormTechLens, f \in FormFindLens :
          createInspectionAction(l, t, f)
              => /\ l < 3 => formState' = Error("location")
                 /\ (l >= 3 /\ t < 2) => formState' = Error("technician")
                 /\ (l >= 3 /\ t >= 2 /\ f < 10) => formState' = Error("findings")
                 /\ formState'.message = "technician" => l >= 3
                 /\ formState'.message = "findings" => (l >= 3 /\ t >= 2)]_vars
C13_Witness == formState = Error("technician") /\ store # <<>>

\* C14: a create while offline stores its record as pending and starts no
\* pass, no pass in progress has scanned the new record, and no pass starts
\* for as long as the host stays offline
C14_OfflineCreateNoPush ==
    /\ [][\A l \in LocLens, t \in TechLens, f \in FindLens :
             (~online /\ l >= 3 /\ t >= 2 /\ f >= 10 /\ createInspectionAction(l, t, f))
                 => /\ passes' = passes
                    /\ \/ store' = store /\ store # <<>>
                       \/ \E id \in Ids \ DOMAIN store :
                             /\ DOMAIN store' = DOMAIN store \cup {id}
                             /\ store'[id].status = "pending"
                             /\ \A q \in BagToSet(passes') :
                                   id \notin Range(IdsOf(q.pending))]_vars
    /\ [][(~online /\ ~online')
             => BagCardinality(passes') <= BagCardinality(passes)]_vars
C14_Witness ==
    /\ ~online
    /\ started
    /\ Active = {}
    /\ \E id \in DOMAIN store : Pending(id) /\ retry[id] = Fresh

\* C15: when the host goes online with the engine started, no pass running
\* and exactly one pending record, one pass starts and sends one push, of
\* that record; when a pass that scanned a single record has its push
\* accepted the record is synced with syncedAt set and the pass returns
C15_OnlineStartsPass ==
    /\ [][\A r \in Ids :
             (/\ ~online /\ online' /\ started /\ Active = {}
              /\ {k \in DOMAIN store : store[k].status = "pending"} = {r})
                 => passes' = SetToBag({[pending |-> <<store[r]>>, idx |-> 1,
                                         pushed |-> <<r>>, syncedCount |-> 0,
                                         body |-> Payload(store[r])]})]_vars
    /\ [][\A p \in Active :
             (Len(p.pending) = 1 /\ FetchReply(p, "ok"))
                 => /\ store'[Current(p)].status = "synced"
                    /\ store'[Current(p)].syncedAt # NoTime
                    /\ passes' = Returned(p)]_vars
C15_Witness ==
    /\ online
    /\ started
    /\ \E r \in Ids :
          /\ DOMAIN store = {r}
          /\ Synced(r)
          /\ retry[r] = [fails |-> 0, ok |-> TRUE, cycles |-> 1]
    /\ Active = {}

\* C16: a create that stored its record while online starts a pass in the
\* same step, and the scan of that pass is taken after the add: it is the
\* pending set of the new store and holds the new record
C16_FastPath ==
    [][\A l \in LocLens, t \in TechLens, f \in FindLens :
          (online /\ createInspectionAction(l, t, f) /\ DOMAIN store' # DOMAIN store)
              => \E q \in BagToSet(passes') :
                    /\ CopiesIn(q, passes') = CopiesIn(q, passes) + 1
                    /\ q.idx = 1
                    /\ q.pending = WhereStatus(store', "pending")
                    /\ (DOMAIN store' \ DOMAIN store) \subseteq Range(IdsOf(q.pending))]_vars
C16_Witness ==
    /\ ~started
    /\ \E id \in DOMAIN store : Synced(id) /\ id \in remote

IdsIn(list) == {list[i].id : i \in 1..Len(list)}

\* C17: the ids of the merged view are the ids of the snapshot together with
\* the ids of the local pending records, and no id occurs twice in the view
C17_MergeIds ==
    /\ IdsIn(inspections) = IdsIn(remoteInspections) \cup IdsIn(localInspections)
    /\ \A i \in 1..Len(inspections), j \in 1..Len(inspections) :
          inspections[i].id = inspections[j].id => i = j
C17_Witness ==
    /\ Len(remoteInspections) = 2
    /\ Len(localInspections) = 1
    /\ IdsIn(localInspections) \subseteq IdsIn(remoteInspections)
    /\ Len(inspections) = 2

\* C18: for an id that is in the snapshot and in the local pending records,
\* the entry of the merged view is the local pending record
C18_LocalWins ==
    \A i \in 1..Len(inspections) :
        (inspections[i].id \in IdsIn(remoteInspections) \cap IdsIn(localInspections))
            => /\ inspections[i] = store[inspections[i].id]
               /\ inspections[i].status = "pending"
C18_Witness ==
    \E i \in 1..Len(remoteInspections) :
        /\ Pending(remoteInspections[i].id)
        /\ remoteInspections[i].createdAt # store[remoteInspections[i].id].createdAt

\* C19: the merged view is ordered by createdAt descending
C19_ViewSorted ==
    \A i \in 1..(Len(inspections) - 1) :
        inspections[i].createdAt >= inspections[i + 1].createdAt
C19_Witness ==
    /\ Len(inspections) = 2
    /\ inspections[1].status = "synced"
    /\ inspections[2].status = "pending"
    /\ inspections[1].createdAt > inspections[2].createdAt
    /\ inspections[1].id > inspections[2].id

\* C20: the synced update applied to a record that is already synced leaves
\* the whole record as it was
C20_UpdateIdempotent ==
    [][\A p \in Active :
          (FetchReply(p, "ok") /\ Synced(Current(p)))
              => store'[Current(p)] = store[Current(p)]]_vars

\* C21: the add of a record whose id is stored is rejected and changes no
\* row; the create that made it returns the ConstraintError as its error
\* state, leaves the store as it was and starts no pass; when every id is
\* stored every valid create ends this way
C21_DuplicateIdRejected ==
    /\ [](\A id \in DOMAIN store, l \in FormLocLens :
             LET rec == NewInspection(id, l, 2, 10, Now)
             IN  AddFails(store, rec) /\ TableAdd(store, rec) = store)
    /\ [][(formState' # formState /\ formState' = Error("ConstraintError"))
             => store' = store /\ passes' = passes]_vars
    /\ [][\A l \in FormLocLens, t \in FormTechLens, f \in FormFindLens :
             (/\ DOMAIN store = Ids
              /\ l >= 3 /\ t >= 2 /\ f >= 10
              /\ createInspectionAction(l, t, f))
                 => /\ formState' = Error("ConstraintError")
                    /\ store' = store
                    /\ passes' = passes]_vars
C21_Witness ==
    /\ formState = Error("ConstraintError")
    /\ online
    /\ Active = {}
    /\ \E id \in DOMAIN store : Pending(id)

\* C22: a synced update against an id that is not in the store creates no
\* record and is not counted as a successful sync by the pass
C22_UpdateMissingFails ==
    [][\A p \in Active :
          (Current(p) \notin DOMAIN store /\ FetchReply(p, "ok"))
              => /\ Current(p) \notin DOMAIN store'
                 /\ \A q \in BagToSet(passes') :
                       CopiesIn(q, passes') > CopiesIn(q, passes)
                           => q.syncedCount = p.syncedCount]_vars

Failures == {"non2xx", "neterr"}

\* C23: after a push that failed, by a non-2xx answer or by a network error,
\* syncInspection returns false, nothing is thrown on to the pass, the store
\* is as it was, and the pass sends its next push with its count unchanged or,
\* after its last record, returns its count
C23_ErrorsStopAtEngine ==
    /\ [](\A p \in Active : p.syncedCount \in 0..(p.idx - 1))
    /\ [][\A p \in Active, o \in Failures :
             FetchReply(p, o)
                 => /\ SyncInspection(o) = "false"
                    /\ store' = store
                    /\ IF p.idx < Len(p.pending)
                       THEN passes' = Returned(p) (+) SetToBag({IssueFetch(p, p.idx + 1)})
                       ELSE /\ passes' = Returned(p)
                            /\ ReturnValue(p, FALSE) = p.syncedCount]_vars
C23_Witness ==
    /\ Active = {}
    /\ \A id \in Ids :
          Pending(id) /\ retry[id] = [fails |-> 1, ok |-> FALSE, cycles |-> 1]

\* C26: a failed push changes nothing in the store, and every pass that
\* starts scans all the records that are pending then, the ones whose push
\* failed before included
C26_FailedPushKeepsPending ==
    /\ [][\A p \in Active, o \in Failures : FetchReply(p, o) => store' = store]_vars
    /\ [][\A q \in BagToSet(passes') :
             (CopiesIn(q, passes') > CopiesIn(q, passes) /\ q.idx = 1)
                 => q.pending = WhereStatus(store', "pending")]_vars
    /\ [](\A id \in DOMAIN store :
             (retry[id] # Void /\ ~retry[id].ok)
                 => store[id].status = "pending" /\ store[id].syncedAt = NoTime)
C26_Witness ==
    \E p \in Active :
        /\ retry[Current(p)] = [fails |-> 1, ok |-> FALSE, cycles |-> 1]
        /\ Pending(Current(p))
        /\ store[Current(p)].syncedAt = NoTime

\* C27: a stored record keeps its id, location, technician, findings and
\* createdAt in every step
C27_ContentImmutable ==
    [][\A id \in DOMAIN store :
          /\ id \in DOMAIN store'
          /\ store'[id].id = store[id].id
          /\ store'[id].location = store[id].location
          /\ store'[id].technician = store[id].technician
          /\ store'[id].findings = store[id].findings
          /\ store'[id].createdAt = store[id].createdAt]_vars
C27_Witness ==
    /\ DOMAIN store = Ids
    /\ \E i \in Ids, j \in Ids :
          /\ Synced(i) /\ store[i].createdAt = 1 /\ store[i].location = 3
          /\ Pending(j) /\ store[j].createdAt = 2

\* C28: the body of every push request in flight has the id, location,
\* technician, findings and createdAt of the stored record, and no status
C28_PayloadMatchesStore ==
    \A p \in Active :
        /\ "status" \notin DOMAIN p.body
        /\ {"id", "location", "technician", "findings", "createdAt"} \subseteq DOMAIN p.body
        /\ p.body.id = Current(p)
        /\ p.body.id \in DOMAIN store
        /\ p.body.location = store[p.body.id].location
        /\ p.body.technician = store[p.body.id].technician
        /\ p.body.findings = store[p.body.id].findings
        /\ p.body.createdAt = store[p.body.id].createdAt
C28_Witness ==
    \E p \in Active :
        /\ p.idx = 2
        /\ p.body.createdAt = 1
        /\ Synced(p.body.id)

\* C29: the records a pass scanned, which it pushes in that order, are in
\* ascending createdAt order
C29_OldestFirst ==
    \A p \in Active :
        \A i \in 1..Len(p.pending), j \in 1..Len(p.pending) :
            i < j => p.pending[i].createdAt <= p.pending[j].createdAt

\* C30: a timer tick while offline changes nothing: it starts no pass and
\* sends no push
C30_TickOfflineNoSync ==
    [][(~online /\ IntervalTick) => (passes' = passes /\ store' = store)]_vars
C30_Witness ==
    /\ ~online
    /\ started
    /\ Active = {}
    /\ \E id \in DOMAIN store :
          Pending(id) /\ retry[id] = [fails |-> 1, ok |-> FALSE, cycles |-> 1]

\* C24: while the view is mounted, a disconnected stream is followed by a
\* reconnect attempt: the status becomes connecting again, unless the view is
\* unmounted first
C24_DisconnectedNotTerminal ==
    (view.phase = "mounted" /\ view.connectionStatus = "disconnected")
        ~> (view.connectionStatus = "connecting" \/ view.phase = "unmounted")

\* C25: a heartbeat message changes neither the list of the last message,
\* nor the last-update time, nor the connection status, nor the merged view
C25_HeartbeatDiscarded ==
    [][onmessage(Heartbeat)
          => /\ remoteInspections' = remoteInspections
             /\ view'.lastUpdate = view.lastUpdate
             /\ view'.connectionStatus = view.connectionStatus
             /\ view'.isConnected = view.isConnected
             /\ Merged(WhereStatus(store', "pending"), remoteInspections')
                    = inspections]_vars
C25_Witness ==
    /\ view.connectionStatus = "connected"
    /\ view.eventSource = "open"
    /\ view.lastUpdate = 1
    /\ Len(remoteInspections) = 2

\* C31: the snapshot is replaced as a whole: whatever list the view holds,
\* handling a well-formed data message leaves exactly the list of that
\* message, so no record of an earlier message survives one that omits it
C31_FullReplace ==
    \A list \in Snapshots :
        Handled(DataEvent(list), remoteInspections, view.lastUpdate)[1] = list
C31_Witness ==
    /\ view.eventSource = "open"
    /\ view.lastUpdate = 2
    /\ Len(remoteInspections) = 1

\* C32: the connection status only moves along the cycle connecting ->
\* connected -> disconnected -> connecting: connected is entered only from
\* connecting, disconnected only from connected
C32_StatusCycle ==
    [][view'.connectionStatus # view.connectionStatus
          => <<view.connectionStatus, view'.connectionStatus>>
                \in {<<"connecting", "connected">>,
                     <<"connected", "disconnected">>,
                     <<"disconnected", "connecting">>}]_vars

\* C33: once the view is unmounted, the stream connection is closed and no
\* reconnect attempt can start: the timer callback, the open handler and the
\* initial connection are all disabled
C33_CleanShutdown ==
    view.phase = "unmounted"
        => /\ view.eventSource \in {"null", "closed"}
           /\ view.reconnectTimeout # "armed"
           /\ ~ENABLED reconnect
           /\ ~ENABLED onopen
           /\ ~ENABLED Mount
C33_Witness ==
    /\ view.phase = "unmounted"
    /\ view.connectionStatus = "disconnected"
    /\ view.eventSource = "closed"
    /\ view.reconnectTimeout = "cleared"

\* C34: the engine has a shutdown path: whenever it is started, the program
\* has a step that stops it (the timer is cleared and the listener removed)
C34_HasShutdown == started => ENABLED (Next /\ started' = FALSE)

\* C35: every record that is pending in the local store is in the merged
\* view, as stored, whatever the connection state and the snapshot
C35_PendingShown ==
    \A id \in DOMAIN store :
        Pending(id) => \E i \in 1..Len(inspections) : inspections[i] = store[id]
C35_Witness ==
    /\ view.phase = "mounted"
    /\ view.connectionStatus = "disconnected"
    /\ view.lastUpdate = NoTime
    /\ remoteInspections = <<>>
    /\ \E id \in DOMAIN store : Pending(id)

\* C37: a record shown by the mounted view is still shown in the state right
\* after an accepted push marks it synced, whatever the snapshot holds
C37_StaysVisible ==
    [][\A p \in Active :
          (/\ FetchReply(p, "ok")
           /\ view.phase = "mounted"
           /\ Pending(Current(p))
           /\ Current(p) \in IdsIn(inspections))
              => Current(p) \in IdsIn(Merged(WhereStatus(store', "pending"),
                                             remoteInspections'))]_vars

\* C36: every push request carries the payload of the record as it was
\* created (its stored content, no syncedAt), so all requests for one id,
\* retries and duplicates included, carry the same body
C36_SamePayload ==
    \A p \in Active :
        /\ p.body.id \in DOMAIN store
        /\ p.body = Payload([store[p.body.id] EXCEPT !.status = "pending",
                                                     !.syncedAt = NoTime])
        /\ \A q \in Active : q.body.id = p.body.id => q.body = p.body
C36_Witness ==
    \E p \in Active :
        /\ p.idx = 1
        /\ Synced(p.body.id)
        /\ store[p.body.id].syncedAt # NoTime
        /\ p.body.syncedAt = NoTime

\* C38: while the view is mounted, a reconnect timer is pending only while
\* the connection is closed (so never two of either), a new connection is
\* opened only when there is none or the previous one is closed, and a timer
\* is armed only by an error on the current connection
C38_OneConnectionOneTimer ==
    [][/\ view.reconnectTimeout = "armed" => view.eventSource = "closed"
       /\ view'.reconnectTimeout = "armed" => view'.eventSource = "closed"
       /\ (view'.eventSource = "connecting" /\ view.eventSource # "connecting")
             => view.eventSource \in {"null", "closed"}
       /\ (view'.reconnectTimeout = "armed" /\ view.reconnectTimeout # "armed")
             => (onerror /\ view.eventSource \in {"connecting", "open"})]_vars
C38_Witness ==
    /\ view.phase = "mounted"
    /\ view.eventSource = "open"
    /\ view.reconnectTimeout = "fired"
    /\ view.connectionStatus = "connected"

\* C39: a message that cannot be parsed is dropped: the snapshot, the
\* last-update time and the connection status stay as they are, the
\* connection stays open and no reconnect timer is set
C39_UnparsableDropped ==
    [][onmessage(Garbled)
          => /\ remoteInspections' = remoteInspections
             /\ view'.lastUpdate = view.lastUpdate
             /\ view'.connectionStatus = view.connectionStatus
             /\ view'.isConnected = view.isConnected
             /\ view'.eventSource = "open"
             /\ view'.reconnectTimeout = view.reconnectTimeout
             /\ view'.reconnectTimeout # "armed"]_vars
C39_Witness ==
    /\ view.connectionStatus = "connected"
    /\ view.eventSource = "open"
    /\ view.lastUpdate = 2
    /\ Len(remoteInspections) = 2
    /\ view.reconnectTimeout = "fired"

\* C40: the result of create does not depend on the sync it starts: a step
\* that stores a record returns success with the record pending, while the
\* pass it started is still in flight, and a push that fails afterwards
\* leaves the returned state and the stored records as they are
C40_ResultIndependentOfSync ==
    [][/\ \A p \in Active, o \in Failures :
             FetchReply(p, o) => (formState' = formState /\ store' = store)
       /\ DOMAIN store' # DOMAIN store
             => /\ formState' = Success(online)
                /\ \A id \in DOMAIN store' \ DOMAIN store : store'[id].status = "pending"
                /\ online => \E q \in BagToSet(passes') :
                                 (DOMAIN store' \ DOMAIN store) \subseteq Range(IdsOf(q.pending))]_vars
C40_Witness ==
    /\ formState = Success(TRUE)
    /\ Active = {}
    /\ remote = {}
    /\ Cardinality(DOMAIN store) = 1
    /\ \A id \in DOMAIN store : Pending(id)
====
